---- MODULE Spec2Model ----
(***************************************************************************)
(* Model of the Spotify podcast downloader (src/spotifyDownloader.js):     *)
(* the resolution pipeline downloadSpotifyEpisode and the functions it     *)
(* calls, getSpotifyInfo, searchItunesRss and downloadFromRss.             *)
(*                                                                         *)
(* JavaScript strings are sequences of one-character strings, so that      *)
(* replace, split, endsWith and includes are computed character by         *)
(* character as the code computes them.                                    *)
(***************************************************************************)
EXTENDS Integers, Sequences, FiniteSets, TLC

VARIABLES
    \* one call of downloadSpotifyEpisode
    pc, spotifyUrl, spotifyInfo, episodeFilter, itunesResult, partialFilter,
    downloadResult, outcome, calls, toolArgs, dir, mtime, clock,
    \* the episode filters applied to one title
    fTitle, fOp, fOut,
    \* searchItunesRss applied to one response
    sResponse, sOp, sOut,
    \* one run of download-podcast.sh
    cPc, cUrl, cFilter, cTitle, cStdout, cRss, cTool,
    \* two calls of downloadSpotifyEpisode side by side
    pState, pFs,
    \* the partial filter of one title applied to one episode title
    mTitle, mText, mOp, mPattern, mResult

pipeVars == <<pc, spotifyUrl, spotifyInfo, episodeFilter, itunesResult,
              partialFilter, downloadResult, outcome, calls, toolArgs, dir,
              mtime, clock>>
filterVars == <<fTitle, fOp, fOut>>
searchVars == <<sResponse, sOp, sOut>>
cliVars == <<cPc, cUrl, cFilter, cTitle, cStdout, cRss, cTool>>
pairVars == <<pState, pFs>>
matchVars == <<mTitle, mText, mOp, mPattern, mResult>>
vars == <<pipeVars, filterVars, searchVars, cliVars, pairVars, matchVars>>

(***************************************************************************)
(* Bounds of the model.                                                    *)
(***************************************************************************)
\* pieces a generated title is put together from
MaxPieces == 3
\* records in a generated feed-index response
MaxResults == 3
\* files already in outputDir when the call starts
MaxStale == 1
\* files one run of the download tool writes
MaxWrites == 1

(***************************************************************************)
(* JavaScript values: undefined, null, booleans, numbers, strings and      *)
(* objects (arrays included), as far as the code tells them apart.         *)
(***************************************************************************)
JUndefined == [t |-> "undefined", s |-> <<>>, n |-> 0]
JNull == [t |-> "null", s |-> <<>>, n |-> 0]
JStr(chars) == [t |-> "string", s |-> chars, n |-> 0]
JNum(k) == [t |-> "number", s |-> <<>>, n |-> k]
JBool(b) == [t |-> "boolean", s |-> <<>>, n |-> IF b THEN 1 ELSE 0]
JObject == [t |-> "object", s |-> <<>>, n |-> 0]

\* ToBoolean, as `!x`, `x || y` and `if (x)` apply it
Truthy(v) ==
    CASE v.t = "undefined" -> FALSE
      [] v.t = "null" -> FALSE
      [] v.t = "boolean" -> v.n = 1
      [] v.t = "number" -> v.n # 0
      [] v.t = "string" -> Len(v.s) > 0
      [] OTHER -> TRUE

\* a || b
Or(a, b) == IF Truthy(a) THEN a ELSE b

(***************************************************************************)
(* Strings.                                                                *)
(***************************************************************************)
RECURSIVE Flatten(_)
Flatten(ss) == IF ss = <<>> THEN <<>> ELSE Head(ss) \o Flatten(Tail(ss))

\* String.prototype.includes
Includes(s, sub) ==
    \E i \in 0..(Len(s) - Len(sub)) :
        \A k \in 1..Len(sub) : s[i + k] = sub[k]

\* String.prototype.endsWith
EndsWith(s, suf) ==
    /\ Len(suf) <= Len(s)
    /\ \A k \in 1..Len(suf) : s[Len(s) - Len(suf) + k] = suf[k]

Backslash == "\\"

\* the character class of /[[\].*^$()+?{|\\]/
RegexClassMissingDot ==
    {"[", "]", "*", "^", "$", "(", ")", "+", "?", "{", "|", Backslash}
RegexClass ==
    {"[", "]", ".", "*", "^", "$", "(", ")", "+", "?", "{", "|", Backslash}

\* s.replace(/[[\].*^$()+?{|\\]/g, '\\$&')
RECURSIVE EscapeRegex(_)
EscapeRegex(s) ==
    IF s = <<>> THEN <<>>
    ELSE (IF Head(s) \in RegexClass THEN <<Backslash, Head(s)>> ELSE <<Head(s)>>)
         \o EscapeRegex(Tail(s))

\* the character class of /[\s\-:,]+/; of the white space \s matches, the
\* space, the tab and the line feed stand for all
SeparatorWithDot == {" ", "\t", "\n", "-", ":", ",", "."}
Separator == {" ", "\t", "\n", "-", ":", ","}

\* the first index from i on that holds no separator (Len(s) + 1 if none)
RECURSIVE SkipSeparators(_, _)
SkipSeparators(s, i) ==
    IF i <= Len(s) /\ s[i] \in Separator THEN SkipSeparators(s, i + 1) ELSE i

\* s.split(/[\s\-:,]+/): the pieces between the runs of separators, the
\* empty piece before a leading run and after a trailing one included
RECURSIVE SplitFrom(_, _, _, _)
SplitFrom(s, i, cur, acc) ==
    IF i > Len(s) THEN Append(acc, cur)
    ELSE IF s[i] \in Separator
         THEN SplitFrom(s, SkipSeparators(s, i), <<>>, Append(acc, cur))
         ELSE SplitFrom(s, i + 1, Append(cur, s[i]), acc)

Split(s) == SplitFrom(s, 1, <<>>, <<>>)

\* word => word.length > 2
LongWordOff(word) == Len(word) >= 2
LongWord(word) == Len(word) > 2

\* title.split(...).filter(...).map(...)
Words(title) ==
    LET kept == SelectSeq(Split(title), LongWord)
    IN  [i \in 1..Len(kept) |-> EscapeRegex(kept[i])]

\* words.join('.*')
RECURSIVE Join(_, _)
Join(words, glue) ==
    IF words = <<>> THEN <<>>
    ELSE IF Len(words) = 1 THEN words[1]
    ELSE words[1] \o glue \o Join(Tail(words), glue)

\* `.*${words.join('.*')}.*`, or no filter when no word is left
PartialFilter(title) ==
    IF Len(Words(title)) > 0
    THEN JStr(<<".", "*">> \o Join(Words(title), <<".", "*">>) \o <<".", "*">>)
    ELSE JNull

\* the exact filter of an episode title
ExactFilter(title) == JStr(EscapeRegex(title))

(***************************************************************************)
(* The titles the filters are applied to: every title put together from    *)
(* at most MaxPieces pieces, and the titles the specification names.       *)
(***************************************************************************)
Pieces ==
    {<<"T", "h", "e">>, <<"a">>, <<"}">>, <<" ">>, <<"\t">>, <<"-">>,
     <<":">>, <<",">>, <<"[">>, <<"]">>, <<".">>, <<"*">>, <<"^">>, <<"$">>,
     <<"(">>, <<")">>, <<"+">>, <<"?">>, <<"{">>, <<"|">>, <<Backslash>>}

TitleAIRevolution ==
    <<"T", "h", "e", " ", "A", ".", "I", ".", " ", "R", "e", "v", "o", "l",
      "u", "t", "i", "o", "n", ":", " ", "P", "a", "r", "t", " ", "O", "n",
      "e">>
TitleDeepDive ==
    <<"E", "p", "i", "s", "o", "d", "e", " ", "4", "2", ":", " ", "D", "e",
      "e", "p", " ", "D", "i", "v", "e">>

GeneratedTitles ==
    {Flatten(ps) : ps \in UNION {[1..n -> Pieces] : n \in 1..MaxPieces}}
FilterTitles == GeneratedTitles \cup {TitleAIRevolution, TitleDeepDive}

\* the variables of the other specifications, at rest
PipeIdle ==
    /\ pc = "Idle" /\ spotifyUrl = <<>> /\ spotifyInfo = JNull
    /\ episodeFilter = JNull /\ itunesResult = JNull /\ partialFilter = JNull
    /\ downloadResult = JNull /\ outcome = JNull /\ calls = <<>>
    /\ toolArgs = <<>> /\ dir = {} /\ mtime = <<>> /\ clock = 0
FilterIdle == fTitle = <<>> /\ fOp = "idle" /\ fOut = JUndefined
SearchIdle == sResponse = JNull /\ sOp = "idle" /\ sOut = JUndefined
CliIdle ==
    /\ cPc = "Idle" /\ cUrl = <<>> /\ cFilter = <<>> /\ cTitle = <<>>
    /\ cStdout = <<>> /\ cRss = <<>> /\ cTool = <<>>
PairIdle == pState = <<>> /\ pFs = <<>>
MatchIdle ==
    /\ mTitle = <<>> /\ mText = <<>> /\ mOp = "idle" /\ mPattern = JUndefined
    /\ mResult = FALSE

(***************************************************************************)
(* The episode filters on their own.                                       *)
(***************************************************************************)
FilterInit ==
    /\ fTitle \in FilterTitles
    /\ fOp = "none"
    /\ fOut = JUndefined
    /\ PipeIdle /\ SearchIdle /\ CliIdle /\ PairIdle /\ MatchIdle

BuildExactFilter ==
    /\ fOp = "none"
    /\ fOp' = "exact"
    /\ fOut' = ExactFilter(fTitle)
    /\ UNCHANGED <<fTitle, pipeVars, searchVars, cliVars, pairVars, matchVars>>

BuildFuzzyFilter ==
    /\ fOp = "none"
    /\ fOp' = "fuzzy"
    /\ fOut' = PartialFilter(fTitle)
    /\ UNCHANGED <<fTitle, pipeVars, searchVars, cliVars, pairVars, matchVars>>

FilterNext == BuildExactFilter \/ BuildFuzzyFilter
SpecFilter == FilterInit /\ [][FilterNext]_vars

(***************************************************************************)
(* The partial filter as the regular expression it is handed over as:      *)
(* --episode-regex keeps the episodes whose title the pattern matches      *)
(* somewhere.  Of the pattern language the filters use: a backslash makes  *)
(* the next character stand for itself, '.*' is a run of any characters    *)
(* but line terminators, any other character stands for itself.            *)
(***************************************************************************)
LineTerminator == {"\n", "\r"}

Lit(c) == [any |-> FALSE, c |-> c]
AnyRun == [any |-> TRUE, c |-> ""]

RECURSIVE RegexTokens(_)
RegexTokens(p) ==
    IF p = <<>> THEN <<>>
    ELSE IF Head(p) = Backslash /\ Len(p) >= 2
         THEN <<Lit(p[2])>> \o RegexTokens(SubSeq(p, 3, Len(p)))
    ELSE IF Head(p) = "." /\ Len(p) >= 2 /\ p[2] = "*"
         THEN <<AnyRun>> \o RegexTokens(SubSeq(p, 3, Len(p)))
    ELSE <<Lit(Head(p))>> \o RegexTokens(Tail(p))

\* the first index from i on that holds a line terminator (Len(text) + 1
\* if none): as far as a run started at i can reach
RECURSIVE DotRunEnd(_, _)
DotRunEnd(text, i) ==
    IF i <= Len(text) /\ text[i] \notin LineTerminator
    THEN DotRunEnd(text, i + 1)
    ELSE i

\* the tokens match text from index i on
RECURSIVE MatchFrom(_, _, _)
MatchFrom(ts, text, i) ==
    IF ts = <<>> THEN TRUE
    ELSE IF Head(ts).any
         THEN \E j \in i..DotRunEnd(text, i) : MatchFrom(Tail(ts), text, j)
    ELSE /\ i <= Len(text)
         /\ text[i] = Head(ts).c
         /\ MatchFrom(Tail(ts), text, i + 1)

\* new RegExp(pattern).test(text)
RegexTest(pattern, text) ==
    \E i \in 1..(Len(text) + 1) : MatchFrom(RegexTokens(pattern), text, i)

\* the titles the partial filter is built from, and for each the episode
\* titles it is tried on: the title itself, its long words spread out with
\* some text before, between and after them, and texts that lack a word
MatchPieces ==
    {<<"T", "h", "e">>, <<"a", ".", "b">>, <<"a">>, <<"}">>, <<" ">>,
     <<"\n">>, <<":">>}
MatchTitles ==
    {Flatten(ps) : ps \in UNION {[1..n -> MatchPieces] : n \in 1..MaxPieces}}
MatchGaps == {<<>>, <<"x">>, <<"\n">>}

RECURSIVE Spread(_, _, _)
Spread(frags, gaps, i) ==
    IF i > Len(frags) THEN <<>>
    ELSE frags[i] \o gaps[i] \o Spread(frags, gaps, i + 1)

MatchTexts(title) ==
    LET frags == SelectSeq(Split(title), LongWord)
        spread == {gaps[0] \o Spread(frags, gaps, 1) :
                       gaps \in [0..Len(frags) -> MatchGaps]}
    IN  {title} \cup spread \cup {Tail(t) : t \in spread \ {<<>>}}

MatchInit ==
    /\ mTitle \in MatchTitles
    /\ mText \in MatchTexts(mTitle)
    /\ mOp = "none"
    /\ mPattern = JUndefined
    /\ mResult = FALSE
    /\ PipeIdle /\ FilterIdle /\ SearchIdle /\ CliIdle /\ PairIdle

\* the partial filter is built; there is none when no word is left
MatchBuild ==
    /\ mOp = "none"
    /\ mPattern' = PartialFilter(mTitle)
    /\ mOp' = IF Len(Words(mTitle)) > 0 THEN "built" ELSE "nofilter"
    /\ UNCHANGED <<mTitle, mText, mResult, pipeVars, filterVars, searchVars,
                   cliVars, pairVars>>

\* the tool tries the pattern on an episode title
MatchTest ==
    /\ mOp = "built"
    /\ mResult' = RegexTest(mPattern.s, mText)
    /\ mOp' = "tested"
    /\ UNCHANGED <<mTitle, mText, mPattern, pipeVars, filterVars, searchVars,
                   cliVars, pairVars>>

MatchNext == MatchBuild \/ MatchTest
SpecMatch == MatchInit /\ [][MatchNext]_vars

(***************************************************************************)
(* searchItunesRss.  A response of the feed index: the request may fail    *)
(* (net), the status may be a non-success one (ok), the body may not parse *)
(* as JSON (body), parse to null, or parse to an object whose results      *)
(* field is absent or a list of records.                                   *)
(***************************************************************************)
Chars2(a, b) == JStr(<<a, b>>)
FeedUrl1 == Chars2("u", "1")
FeedUrl2 == Chars2("u", "2")
Unknown == JStr(<<"U", "n", "k", "n", "o", "w", "n">>)

Candidate(feedUrl, collectionName) ==
    [t |-> "candidate", feedUrl |-> feedUrl, collectionName |-> collectionName]
NoCandidate == [t |-> "null", feedUrl |-> JNull, collectionName |-> JNull]

Reverse(seq) == [i \in 1..Len(seq) |-> seq[Len(seq) + 1 - i]]

\* the loop over the results, from record i on
RECURSIVE FirstUnseen(_, _, _)
FirstUnseenFromEnd(results, i, seen) ==
    LET back == Reverse(results)
        hits == {k \in 1..Len(back) : Truthy(back[k].feedUrl)}
        first == CHOOSE k \in hits : \A j \in hits : k <= j
    IN  IF hits = {} THEN NoCandidate
        ELSE Candidate(back[first].feedUrl,
                       Or(Or(back[first].collectionName, back[first].trackName),
                          Unknown))
FirstUnseen(results, i, seen) ==
    IF i > Len(results) THEN NoCandidate
    ELSE LET feedUrl == results[i].feedUrl
         IN  IF Truthy(feedUrl) /\ feedUrl \notin seen
             THEN Candidate(feedUrl,
                            Or(Or(results[i].collectionName, results[i].trackName),
                               Unknown))
             ELSE FirstUnseen(results, i + 1, seen \cup {feedUrl})

SearchItunesRssEmptyList(response) ==
    IF response.net = "throws" THEN NoCandidate
    ELSE IF ~response.ok THEN NoCandidate
    ELSE IF response.body \in {"unparsable", "null"} THEN NoCandidate
    ELSE LET results == IF response.hasResults THEN response.results ELSE <<>>
             found == FirstUnseen(results, 1, {})
         IN  IF found.t = "null"
             THEN [t |-> "empty", feedUrl |-> JNull, collectionName |-> JNull]
             ELSE found
SearchItunesRss(response) ==
    IF response.net = "throws" THEN NoCandidate
    ELSE IF ~response.ok THEN NoCandidate
    ELSE IF response.body \in {"unparsable", "null"} THEN NoCandidate
    ELSE LET results == IF response.hasResults THEN response.results ELSE <<>>
         IN  IF Len(results) = 0 THEN NoCandidate
             ELSE FirstUnseen(results, 1, {})

FeedResponse(net, ok, body, hasResults, results) ==
    [net |-> net, ok |-> ok, body |-> body, hasResults |-> hasResults,
     results |-> results]
ResultRecord(feedUrl, collectionName, trackName) ==
    [feedUrl |-> feedUrl, collectionName |-> collectionName,
     trackName |-> trackName]

\* the responses that carry no list of records
FailedFeedResponses ==
    {FeedResponse("throws", FALSE, "unparsable", FALSE, <<>>),
     FeedResponse("ok", FALSE, "unparsable", FALSE, <<>>),
     FeedResponse("ok", TRUE, "unparsable", FALSE, <<>>),
     FeedResponse("ok", TRUE, "null", FALSE, <<>>),
     FeedResponse("ok", TRUE, "object", FALSE, <<>>)}

ResultRecords ==
    {ResultRecord(u, c, n) :
        u \in {JUndefined, JStr(<<>>), FeedUrl1, FeedUrl2},
        c \in {JUndefined, Chars2("n", "1"), Chars2("n", "2")},
        n \in {JUndefined, Chars2("t", "1")}}

SearchResponses ==
    FailedFeedResponses \cup
    {FeedResponse("ok", TRUE, "object", TRUE, rs) :
        rs \in UNION {[1..n -> ResultRecords] : n \in 0..MaxResults}}

\* the responses the pipeline is run against
PipelineFeedResponses ==
    FailedFeedResponses \cup
    {FeedResponse("ok", TRUE, "object", TRUE, rs) :
        rs \in {<<>>,
                <<ResultRecord(JUndefined, Chars2("n", "1"), JUndefined)>>,
                <<ResultRecord(FeedUrl1, Chars2("n", "1"), JUndefined)>>,
                <<ResultRecord(FeedUrl1, Chars2("n", "1"), JUndefined),
                  ResultRecord(FeedUrl1, Chars2("n", "2"), JUndefined)>>,
                <<ResultRecord(JStr(<<>>), JUndefined, JUndefined),
                  ResultRecord(FeedUrl2, JUndefined, Chars2("t", "1"))>>}}

SearchInit ==
    /\ sResponse \in SearchResponses
    /\ sOp = "none"
    /\ sOut = JUndefined
    /\ PipeIdle /\ FilterIdle /\ CliIdle /\ PairIdle /\ MatchIdle

Search ==
    /\ sOp = "none"
    /\ sOp' = "searched"
    /\ sOut' = SearchItunesRss(sResponse)
    /\ UNCHANGED <<sResponse, pipeVars, filterVars, cliVars, pairVars, matchVars>>

SearchNext == Search
SpecSearch == SearchInit /\ [][SearchNext]_vars

(***************************************************************************)
(* getSpotifyInfo.  A response of the metadata endpoint: the request may   *)
(* fail (net), the status may be a non-success one (ok), the body may not  *)
(* parse as JSON, parse to null, or parse to a value whose title field is  *)
(* absent (JUndefined) or any JSON value.                                  *)
(***************************************************************************)
EpisodeMarker == <<"/", "e", "p", "i", "s", "o", "d", "e", "/">>
UrlEpisode == <<"s", "p", "o", "t", "i", "f", "y", ".", "c", "o", "m", "/", "e", "p",
      "i", "s", "o", "d", "e", "/", "1">>
UrlShow == <<"s", "p", "o", "t", "i", "f", "y", ".", "c", "o", "m", "/", "s", "h",
      "o", "w", "/", "1">>
\* ends in "/episode", without the slash after it
UrlEpisodeNoSlash == <<"s", "p", "o", "t", "i", "f", "y", ".", "c", "o", "m", "/", "e", "p",
      "i", "s", "o", "d", "e">>
SpotifyUrls == {UrlEpisode, UrlShow, UrlEpisodeNoSlash}

Info(title, type) == [t |-> "info", title |-> title, type |-> type]
NoInfo == [t |-> "null", title |-> JNull, type |-> "none"]

\* spotifyUrl.includes('/episode/') ? 'episode' : 'show'
Kind(url) == IF Includes(url, EpisodeMarker) THEN "episode" ELSE "show"

GetSpotifyInfoKindFromReply(url, response) ==
    IF response.net = "throws" \/ ~response.ok
          \/ response.body \in {"unparsable", "null"}
    THEN NoInfo
    ELSE Info(Or(response.title, JNull),
              IF response.title = JStr(<<"A", ".", "I", ".">>) THEN "show"
              ELSE Kind(url))
GetSpotifyInfo(url, response) ==
    IF response.net = "throws" THEN NoInfo
    ELSE IF ~response.ok THEN NoInfo
    ELSE IF response.body \in {"unparsable", "null"} THEN NoInfo
    ELSE Info(Or(response.title, JNull), Kind(url))

MetaResponse(net, ok, body, title) ==
    [net |-> net, ok |-> ok, body |-> body, title |-> title]

TitleNoFragment == <<"a", "-", "b">>
TitleDotted == <<"A", ".", "I", ".">>
TitleDollar == <<"U", "S", "$">>
PipelineTitles == {TitleDeepDive, TitleNoFragment, TitleDotted, TitleDollar}

\* title fields that are no non-empty string
OddTitles ==
    {JUndefined, JNull, JStr(<<>>), JNum(0), JNum(42), JBool(FALSE),
     JBool(TRUE), JObject}

MetaResponses ==
    {MetaResponse("throws", FALSE, "unparsable", JUndefined),
     MetaResponse("ok", FALSE, "unparsable", JUndefined),
     MetaResponse("ok", TRUE, "unparsable", JUndefined),
     MetaResponse("ok", TRUE, "null", JUndefined)}
    \cup {MetaResponse("ok", TRUE, "object", v) :
            v \in OddTitles \cup {JStr(s) : s \in PipelineTitles}}

(***************************************************************************)
(* downloadFromRss.  outputDir holds the files of dir, each with its       *)
(* modification time; one run of the download tool may write files and     *)
(* ends with exit status zero, with a non-zero status, killed at the       *)
(* timeout, or killed when its output overruns the buffer; creating        *)
(* outputDir may fail before the tool is started.                          *)
(***************************************************************************)
OutputDir == <<"o", "u", "t">>
FileMp3 == <<"a", ".", "m", "p", "3">>
FileM4a == <<"b", ".", "m", "4", "a">>
FileWav == <<"c", ".", "w", "a", "v">>
FileTxt == <<"d", ".", "t", "x", "t">>
\* a name that ends in mp3 without the dot
FileNoDot == <<"m", "p", "3">>
FileNames == {FileMp3, FileM4a, FileWav, FileTxt, FileNoDot}

NoAudioFiles == JStr(<<"N", "o", " ", "a", "u", "d", "i", "o", " ", "f", "i", "l", "e", "s",
      " ", "d", "o", "w", "n", "l", "o", "a", "d", "e", "d">>)
\* error.message of a rejected exec and of a failed mkdirSync, cut short
CommandFailed == JStr(<<"C", "o", "m", "m", "a", "n", "d", " ", "f", "a", "i", "l", "e", "d">>)
MaxBufferExceeded == JStr(<<"s", "t", "d", "o", "u", "t", " ", "m", "a", "x", "B", "u", "f", "f",
      "e", "r", " ", "l", "e", "n", "g", "t", "h", " ", "e", "x", "c", "e",
      "e", "d", "e", "d">>)
MkdirFailed == JStr(<<"E", "A", "C", "C", "E", "S", ":", " ", "p", "e", "r", "m", "i", "s",
      "s", "i", "o", "n", " ", "d", "e", "n", "i", "e", "d", ",", " ", "m",
      "k", "d", "i", "r">>)

\* f.endsWith('.mp3') || f.endsWith('.m4a') || f.endsWith('.wav')
IsAudioAnyFile(f) == TRUE
IsAudioNoWav(f) ==
    \/ EndsWith(f, <<".", "m", "p", "3">>)
    \/ EndsWith(f, <<".", "m", "4", "a">>)
IsAudio(f) ==
    \/ EndsWith(f, <<".", "m", "p", "3">>)
    \/ EndsWith(f, <<".", "m", "4", "a">>)
    \/ EndsWith(f, <<".", "w", "a", "v">>)

\* path.join(outputDir, f)
PathJoin(d, f) == d \o <<"/">> \o f

Downloaded(success, filePath, fileName, error) ==
    [success |-> success, filePath |-> filePath, fileName |-> fileName,
     error |-> error]

ToolRun(mkdir, exit, writes) == [mkdir |-> mkdir, exit |-> exit, writes |-> writes]
ToolRuns ==
    {ToolRun("throws", "none", {})} \cup
    {ToolRun("ok", e, w) :
        e \in {"zero", "nonzero", "timeout", "maxBuffer"},
        w \in {x \in SUBSET FileNames : Cardinality(x) <= MaxWrites}}

\* episodeFilter.replace(/"/g, '\\"')
RECURSIVE ShellEscape(_)
ShellEscape(s) ==
    IF s = <<>> THEN <<>>
    ELSE (IF Head(s) = "\"" THEN <<Backslash, "\"">> ELSE <<Head(s)>>)
         \o ShellEscape(Tail(s))

\* what the shell exec starts (/bin/sh) makes of the text between the
\* double quotes of --episode-regex "...": a backslash before $, " or
\* another backslash is removed, every other character stands for itself
\* (the filters hold no unescaped $ or ", and the titles no backquote)
RECURSIVE ShellDoubleQuoted(_)
ShellDoubleQuoted(s) ==
    IF s = <<>> THEN <<>>
    ELSE IF Head(s) = Backslash /\ Len(s) >= 2
            /\ s[2] \in {"$", "\"", Backslash}
         THEN <<s[2]>> \o ShellDoubleQuoted(SubSeq(s, 3, Len(s)))
         ELSE <<Head(s)>> \o ShellDoubleQuoted(Tail(s))

\* the --episode-regex argument the tool is started with: none when
\* episodeFilter is falsy
NoRegexArg == JNull
NotStarted == JUndefined
EpisodeRegexArg(filter) ==
    IF Truthy(filter)
    THEN JStr(ShellDoubleQuoted(ShellEscape(filter.s)))
    ELSE NoRegexArg

\* outputDir after the run
DirAfter(run, d) == d \cup run.writes
MtimeAfter(run, d, mt, clk) ==
    [f \in DirAfter(run, d) |-> IF f \in run.writes THEN clk + 1 ELSE mt[f]]

\* the results downloadFromRss may return for a run: one for each file that
\* may stand first after the sort by modification time
DownloadFromRssOldest(run, d, mt, clk) ==
    IF run.mkdir = "throws"
    THEN {Downloaded(FALSE, JUndefined, JUndefined, MkdirFailed)}
    ELSE IF run.exit \in {"nonzero", "timeout"}
    THEN {Downloaded(FALSE, JUndefined, JUndefined, CommandFailed)}
    ELSE IF run.exit = "maxBuffer"
    THEN {Downloaded(FALSE, JUndefined, JUndefined, MaxBufferExceeded)}
    ELSE LET files == {f \in DirAfter(run, d) : IsAudio(f)}
             after == MtimeAfter(run, d, mt, clk)
             oldest == {f \in files : \A g \in files : after[f] <= after[g]}
         IN  IF files = {}
             THEN {Downloaded(FALSE, JUndefined, JUndefined, NoAudioFiles)}
             ELSE {Downloaded(TRUE, JStr(PathJoin(OutputDir, f)), JStr(f),
                              JUndefined) : f \in oldest}
\* the same for any outputDir, from what the directory holds (all, with
\* the modification times after) when the tool run has ended
DownloadFromRssIn(outputDir, run, all, after) ==
    IF run.mkdir = "throws"
    THEN {Downloaded(FALSE, JUndefined, JUndefined, MkdirFailed)}
    ELSE IF run.exit \in {"nonzero", "timeout"}
    THEN {Downloaded(FALSE, JUndefined, JUndefined, CommandFailed)}
    ELSE IF run.exit = "maxBuffer"
    THEN {Downloaded(FALSE, JUndefined, JUndefined, MaxBufferExceeded)}
    ELSE LET files == {f \in all : IsAudio(f)}
             newest == {f \in files : \A g \in files : after[g] <= after[f]}
         IN  IF files = {}
             THEN {Downloaded(FALSE, JUndefined, JUndefined, NoAudioFiles)}
             ELSE {Downloaded(TRUE, JStr(PathJoin(outputDir, f)), JStr(f),
                              JUndefined) : f \in newest}
DownloadFromRss(run, d, mt, clk) ==
    DownloadFromRssIn(OutputDir, run, DirAfter(run, d),
                      MtimeAfter(run, d, mt, clk))

(***************************************************************************)
(* downloadSpotifyEpisode.  pc is the stage the call waits in; calls is    *)
(* the list of the calls it has made to getSpotifyInfo, searchItunesRss    *)
(* and downloadFromRss, in order.                                          *)
(***************************************************************************)
CouldNotFetch == JStr(<<"C", "o", "u", "l", "d", " ", "n", "o", "t", " ", "f", "e", "t", "c",
      "h", " ", "p", "o", "d", "c", "a", "s", "t", " ", "i", "n", "f", "o",
      " ", "f", "r", "o", "m", " ", "S", "p", "o", "t", "i", "f", "y">>)
CouldNotFind == JStr(<<"C", "o", "u", "l", "d", " ", "n", "o", "t", " ", "f", "i", "n", "d",
      " ", "R", "S", "S", " ", "f", "e", "e", "d", " ", "i", "n", " ", "i",
      "T", "u", "n", "e", "s">>)

\* a call: its argument (url, query or filter), the entity hint of a search,
\* what the outside answered, whether the outside was reached at all (the
\* tool is not started when outputDir cannot be made), and its success
Call(op, arg, entity, reply, ran, success) ==
    [op |-> op, arg |-> arg, entity |-> entity, reply |-> reply, ran |-> ran,
     success |-> success]

Outcome(success, filePath, fileName, title, podcastName, rssUrl, error) ==
    [success |-> success, filePath |-> filePath, fileName |-> fileName,
     title |-> title, podcastName |-> podcastName, rssUrl |-> rssUrl,
     error |-> error]
Failure(error) ==
    Outcome(FALSE, JUndefined, JUndefined, JUndefined, JUndefined, JUndefined,
            error)
NoOutcome ==
    Outcome(FALSE, JUndefined, JUndefined, JUndefined, JUndefined, JUndefined,
            JUndefined)
NoDownload == Downloaded(FALSE, JUndefined, JUndefined, JUndefined)

\* the return at the end of the call, from its last download result
FinishOf(info, found, result) ==
    IF ~result.success
    THEN Outcome(FALSE, result.filePath, result.fileName, JUndefined,
                 JUndefined, JUndefined, result.error)
    ELSE Outcome(TRUE, result.filePath, result.fileName, info.title,
                 found.collectionName, found.feedUrl, JUndefined)
Finish(result) == FinishOf(spotifyInfo, itunesResult, result)

\* spotifyInfo.type === 'episode' ? 'podcastEpisode' : 'podcast'
Entity(type) == IF type = "episode" THEN "podcastEpisode" ELSE "podcast"

\* !(!spotifyInfo || !spotifyInfo.title)
TitleResolvedAnyInfo(info) == info.t = "info"
TitleResolved(info) == info.t = "info" /\ Truthy(info.title)

\* !(!itunesResult || !itunesResult.feedUrl)
FeedFoundAlways(found) == TRUE
FeedFound(found) == found.t = "candidate" /\ Truthy(found.feedUrl)

PipeInit ==
    /\ pc = "ResolvingTitle"
    /\ spotifyUrl \in SpotifyUrls
    /\ spotifyInfo = NoInfo
    /\ episodeFilter = JNull
    /\ itunesResult = NoCandidate
    /\ partialFilter = JNull
    /\ downloadResult = NoDownload
    /\ outcome = NoOutcome
    /\ calls = <<>>
    /\ dir \in {x \in SUBSET FileNames : Cardinality(x) <= MaxStale}
    /\ mtime = [f \in dir |-> 0]
    /\ clock = 0
    /\ toolArgs = <<>>
    /\ FilterIdle /\ SearchIdle /\ CliIdle /\ PairIdle /\ MatchIdle

\* the metadata lookup answers; the title is checked and, for an episode,
\* the exact filter is built
ResolveTitle ==
    /\ pc = "ResolvingTitle"
    /\ \E response \in MetaResponses :
        LET info == GetSpotifyInfo(spotifyUrl, response)
            lookup == Call("getSpotifyInfo", JStr(spotifyUrl), "none",
                           response, TRUE, info.t = "info")
        IN  /\ spotifyInfo' = info
            /\ calls' = Append(calls, lookup)
            /\ IF ~TitleResolved(info)
               THEN /\ outcome' = Failure(CouldNotFetch)
                    /\ pc' = "Done"
                    /\ UNCHANGED episodeFilter
               ELSE IF info.type = "episode" /\ info.title.t # "string"
               THEN \* title.replace is not a function
                    /\ pc' = "Thrown"
                    /\ UNCHANGED <<outcome, episodeFilter>>
               ELSE /\ episodeFilter' = IF info.type = "episode"
                                        THEN ExactFilter(info.title.s)
                                        ELSE JNull
                    /\ pc' = "SearchingFeed"
                    /\ UNCHANGED outcome
    /\ UNCHANGED <<spotifyUrl, itunesResult, partialFilter, downloadResult,
                   toolArgs, dir, mtime, clock, filterVars, searchVars,
                   cliVars, pairVars, matchVars>>

\* the feed index answers
SearchFeed ==
    /\ pc = "SearchingFeed"
    /\ \E response \in PipelineFeedResponses :
        LET found == SearchItunesRss(response)
            search == Call("searchItunesRss", spotifyInfo.title,
                           Entity(spotifyInfo.type), response, TRUE,
                           found.t = "candidate")
        IN  /\ itunesResult' = found
            /\ calls' = Append(calls, search)
            /\ IF ~FeedFound(found)
               THEN /\ outcome' = Failure(CouldNotFind)
                    /\ pc' = "Done"
               ELSE /\ pc' = "AttemptingExactDownload"
                    /\ UNCHANGED outcome
    /\ UNCHANGED <<spotifyUrl, spotifyInfo, episodeFilter, partialFilter,
                   downloadResult, toolArgs, dir, mtime, clock, filterVars,
                   searchVars, cliVars, pairVars, matchVars>>

\* one call of downloadFromRss: what it leaves in outputDir and returns
Download(filter, run, result) ==
    /\ result \in DownloadFromRss(run, dir, mtime, clock)
    /\ downloadResult' = result
    /\ calls' = Append(calls, Call("downloadFromRss", filter, "none", run,
                                   run.mkdir = "ok", result.success))
    /\ toolArgs' = Append(toolArgs, IF run.mkdir = "ok"
                                    THEN EpisodeRegexArg(filter)
                                    ELSE NotStarted)
    /\ IF run.mkdir = "ok"
       THEN /\ dir' = DirAfter(run, dir)
            /\ mtime' = MtimeAfter(run, dir, mtime, clock)
            /\ clock' = clock + 1
       ELSE UNCHANGED <<dir, mtime, clock>>

\* whether a second attempt follows the first one's result
RetryNever(result) == FALSE
RetryAlways(result) == TRUE
RetryAnyKind(result) == ~result.success
RetryOf(info, result) == ~result.success /\ info.type = "episode"
Retry(result) == RetryOf(spotifyInfo, result)

\* whether the words left make a filter
HasWordsAlways(title) == TRUE
HasWords(title) == Len(Words(title)) > 0

\* the first download ends; a failed one of an episode is tried again
\* with the partial filter when the title leaves a word for it
AttemptExact ==
    /\ pc = "AttemptingExactDownload"
    /\ \E run \in ToolRuns :
        \E result \in DownloadFromRss(run, dir, mtime, clock) :
            /\ Download(episodeFilter, run, result)
            /\ IF Retry(result) /\ HasWords(spotifyInfo.title.s)
               THEN /\ partialFilter' = PartialFilter(spotifyInfo.title.s)
                    /\ pc' = "AttemptingFuzzyDownload"
                    /\ UNCHANGED outcome
               ELSE /\ outcome' = Finish(result)
                    /\ pc' = "Done"
                    /\ UNCHANGED partialFilter
    /\ UNCHANGED <<spotifyUrl, spotifyInfo, episodeFilter, itunesResult,
                   filterVars, searchVars, cliVars, pairVars, matchVars>>

\* the second download ends
AttemptFuzzy ==
    /\ pc = "AttemptingFuzzyDownload"
    /\ \E run \in ToolRuns :
        \E result \in DownloadFromRss(run, dir, mtime, clock) :
            /\ Download(partialFilter, run, result)
            /\ outcome' = Finish(result)
            /\ pc' = "Done"
    /\ UNCHANGED <<spotifyUrl, spotifyInfo, episodeFilter, itunesResult,
                   partialFilter, filterVars, searchVars, cliVars, pairVars,
                   matchVars>>

Next == ResolveTitle \/ SearchFeed \/ AttemptExact \/ AttemptFuzzy
Spec == PipeInit /\ [][Next]_vars

(***************************************************************************)
(* Two calls of downloadSpotifyEpisode side by side.  A call gives way at  *)
(* each await: while its lookup, its search or its tool run is under way   *)
(* the other call may take steps.  pState holds the local variables of     *)
(* each call and the answers it was given; pFs is the file system, one     *)
(* directory for each outputDir, and its clock.                            *)
(***************************************************************************)
Procs == {1, 2}
DirA == <<"o", "u", "t", "A">>
DirB == <<"o", "u", "t", "B">>
PairDirs == {DirA, DirB}

\* the outputDir each call is given
OutputDirShared(p) == DirA
OutputDirOf(p) == IF p = 1 THEN DirA ELSE DirB

PairUrls == {UrlEpisode, UrlShow}
PairStale == {{}, {FileWav}}
PairMetaResponses ==
    {MetaResponse("ok", TRUE, "null", JUndefined),
     MetaResponse("ok", TRUE, "object", JStr(TitleDeepDive)),
     MetaResponse("ok", TRUE, "object", JStr(TitleNoFragment))}
PairFeedResponses ==
    {FeedResponse("ok", TRUE, "object", TRUE, <<>>),
     FeedResponse("ok", TRUE, "object", TRUE,
                  <<ResultRecord(FeedUrl1, Chars2("n", "1"), JUndefined)>>)}
PairToolRuns ==
    {ToolRun("throws", "none", {}), ToolRun("ok", "zero", {}),
     ToolRun("ok", "zero", {FileMp3}), ToolRun("ok", "timeout", {FileM4a})}

NoMeta == MetaResponse("none", FALSE, "none", JUndefined)
NoFeed == FeedResponse("none", FALSE, "none", FALSE, <<>>)
NoRun == ToolRun("none", "none", {})

Folder(files, mt) == [files |-> files, mtime |-> mt]

PairInit ==
    /\ \E stale \in [PairDirs -> PairStale], urls \in [Procs -> PairUrls] :
           /\ pFs = [dirs |-> [d \in PairDirs |->
                                  Folder(stale[d], [f \in stale[d] |-> 0])],
                     clock |-> 0]
           /\ pState = [p \in Procs |->
                          [pc |-> "ResolvingTitle", url |-> urls[p],
                           start |-> stale[OutputDirOf(p)], info |-> NoInfo,
                           found |-> NoCandidate, filter |-> JNull,
                           result |-> NoDownload, outcome |-> NoOutcome,
                           meta |-> NoMeta, feed |-> NoFeed, run1 |-> NoRun,
                           run2 |-> NoRun]]
    /\ PipeIdle /\ FilterIdle /\ SearchIdle /\ CliIdle /\ MatchIdle

\* the metadata lookup of call p answers
PLookup(p) ==
    /\ pState[p].pc = "ResolvingTitle"
    /\ \E response \in PairMetaResponses :
           LET info == GetSpotifyInfo(pState[p].url, response)
           IN  pState' = [pState EXCEPT ![p] =
                   [@ EXCEPT !.meta = response,
                             !.info = info,
                             !.outcome = IF ~TitleResolved(info)
                                         THEN Failure(CouldNotFetch) ELSE @,
                             !.filter = IF TitleResolved(info)
                                           /\ info.type = "episode"
                                        THEN ExactFilter(info.title.s)
                                        ELSE JNull,
                             !.pc = IF ~TitleResolved(info)
                                    THEN "Done" ELSE "SearchingFeed"]]
    /\ UNCHANGED <<pFs, pipeVars, filterVars, searchVars, cliVars, matchVars>>

\* the feed index answers call p
PSearch(p) ==
    /\ pState[p].pc = "SearchingFeed"
    /\ \E response \in PairFeedResponses :
           LET found == SearchItunesRss(response)
           IN  pState' = [pState EXCEPT ![p] =
                   [@ EXCEPT !.feed = response,
                             !.found = found,
                             !.outcome = IF ~FeedFound(found)
                                         THEN Failure(CouldNotFind) ELSE @,
                             !.pc = IF ~FeedFound(found)
                                    THEN "Done"
                                    ELSE "AttemptingExactDownload"]]
    /\ UNCHANGED <<pFs, pipeVars, filterVars, searchVars, cliVars, matchVars>>

\* downloadFromRss of call p up to its await: outputDir is made and the
\* tool runs in it
PTool(p) ==
    /\ pState[p].pc \in {"AttemptingExactDownload", "AttemptingFuzzyDownload"}
    /\ \E run \in PairToolRuns :
           LET d == OutputDirOf(p)
               was == pFs.dirs[d]
               first == pState[p].pc = "AttemptingExactDownload"
           IN  /\ pState' = [pState EXCEPT ![p] =
                       [@ EXCEPT !.run1 = IF first THEN run ELSE @,
                                 !.run2 = IF first THEN @ ELSE run,
                                 !.pc = IF first THEN "CollectingExact"
                                        ELSE "CollectingFuzzy"]]
               /\ pFs' = IF run.mkdir = "ok"
                         THEN [dirs |-> [pFs.dirs EXCEPT ![d] =
                                   Folder(DirAfter(run, was.files),
                                          MtimeAfter(run, was.files, was.mtime,
                                                     pFs.clock))],
                               clock |-> pFs.clock + 1]
                         ELSE pFs
    /\ UNCHANGED <<pipeVars, filterVars, searchVars, cliVars, matchVars>>

\* the first downloadFromRss of call p after its await, and what
\* downloadSpotifyEpisode does with the result
PCollectExact(p) ==
    /\ pState[p].pc = "CollectingExact"
    /\ LET now == pFs.dirs[OutputDirOf(p)]
           info == pState[p].info
           found == pState[p].found
       IN  \E result \in DownloadFromRssIn(OutputDirOf(p), pState[p].run1,
                                           now.files, now.mtime) :
               pState' = [pState EXCEPT ![p] =
                   IF RetryOf(info, result) /\ HasWords(info.title.s)
                   THEN [@ EXCEPT !.result = result,
                                  !.filter = PartialFilter(info.title.s),
                                  !.pc = "AttemptingFuzzyDownload"]
                   ELSE [@ EXCEPT !.result = result,
                                  !.outcome = FinishOf(info, found, result),
                                  !.pc = "Done"]]
    /\ UNCHANGED <<pFs, pipeVars, filterVars, searchVars, cliVars, matchVars>>

\* the second downloadFromRss of call p after its await
PCollectFuzzy(p) ==
    /\ pState[p].pc = "CollectingFuzzy"
    /\ LET now == pFs.dirs[OutputDirOf(p)]
           info == pState[p].info
           found == pState[p].found
       IN  \E result \in DownloadFromRssIn(OutputDirOf(p), pState[p].run2,
                                           now.files, now.mtime) :
               pState' = [pState EXCEPT ![p] =
                   [@ EXCEPT !.result = result,
                             !.outcome = FinishOf(info, found, result),
                             !.pc = "Done"]]
    /\ UNCHANGED <<pFs, pipeVars, filterVars, searchVars, cliVars, matchVars>>

PairNext ==
    \E p \in Procs :
        \/ PLookup(p)
        \/ PSearch(p)
        \/ PTool(p)
        \/ PCollectExact(p)
        \/ PCollectFuzzy(p)
SpecPair == PairInit /\ [][PairNext]_vars

(***************************************************************************)
(* download-podcast.sh.  The script runs under set -e.  Texts are the      *)
(* sequences of their characters, an output is the sequence of its lines;  *)
(* the colour codes of the messages are left out.                          *)
(***************************************************************************)
SpotifyCom == <<"s", "p", "o", "t", "i", "f", "y", ".", "c", "o", "m">>
ShowMarker == <<"/", "s", "h", "o", "w", "/">>
CliUrlOther == <<"s", "p", "o", "t", "i", "f", "y", ".", "c", "o", "m", "/", "x">>
CliUrlFeed == <<"u", "1">>
CliUrls == {UrlEpisode, UrlShow, CliUrlOther, CliUrlFeed}

\* what the oEmbed request of get_spotify_title brings back: no JSON object
\* at all (curl failed, or the body is none), or an object and its title
TitleReply(body, title) == [body |-> body, title |-> title]
CliTitleThe == <<"T", "h", "e">>
CliTitleDotted == <<"a", ".", "b">>
CliTitleError == <<"E", "r", "r", "o", "r">>
TitleReplies ==
    {TitleReply("none", JUndefined)} \cup
    {TitleReply("object", t) :
        t \in {JUndefined, JNull, JStr(<<>>), JStr(CliTitleThe),
               JStr(CliTitleDotted), JStr(CliTitleError)}}

\* d.get(key, default)
PyGet(v, default) == IF v.t = "undefined" THEN default ELSE v
\* print(v)
PyPrint(v) == IF v.t = "null" THEN <<"N", "o", "n", "e">> ELSE v.s

\* curl -s ... | python3 -c "...print(d.get('title',''))": the exit status
\* is python's, the output what it printed
get_spotify_title(reply) ==
    IF reply.body # "object"
    THEN [status |-> 1, out |-> <<>>]
    ELSE [status |-> 0, out |-> PyPrint(PyGet(reply.title, JStr(<<>>)))]

\* the bracket expression of sed 's/[[\.*^$()+?{|]/\\&/g'
SedClass == {"[", Backslash, ".", "*", "^", "$", "(", ")", "+", "?", "{", "|"}
RECURSIVE SedEscape(_)
SedEscape(s) ==
    IF s = <<>> THEN <<>>
    ELSE (IF Head(s) \in SedClass THEN <<Backslash, Head(s)>> ELSE <<Head(s)>>)
         \o SedEscape(Tail(s))

\* "Deduplicate by feedUrl": the records that bear a feed not seen before
RECURSIVE Unique(_, _, _)
Unique(results, i, seen) ==
    IF i > Len(results) THEN <<>>
    ELSE LET feed == PyGet(results[i].feedUrl, JStr(<<>>))
         IN  IF Truthy(feed) /\ feed \notin seen
             THEN <<results[i]>> \o Unique(results, i + 1, seen \cup {feed})
             ELSE Unique(results, i + 1, seen)

NoResults == <<"N", "O", "_", "R", "E", "S", "U", "L", "T", "S">>
SinglePrefix == <<"S", "I", "N", "G", "L", "E", ":">>
Multiple == <<"M", "U", "L", "T", "I", "P", "L", "E">>
Digit(i) == <<"1", "2", "3", "4", "5">>[i]
MaxListed == 5

\* the lines search_itunes_interactive prints; none when python fails on
\* the response
search_itunes_interactive(response) ==
    IF \/ response.net = "throws"
       \/ ~response.ok
       \/ response.body \in {"unparsable", "null"}
    THEN <<>>
    ELSE LET results == IF response.hasResults THEN response.results ELSE <<>>
             unique == Unique(results, 1, {})
             listed == IF Len(unique) > MaxListed THEN MaxListed ELSE Len(unique)
         IN  IF Len(results) = 0 THEN <<NoResults>>
             ELSE IF Len(unique) = 1
             THEN <<SinglePrefix \o PyGet(unique[1].feedUrl, JStr(<<>>)).s>>
             ELSE <<Multiple>> \o
                  [i \in 1..listed |->
                      <<Digit(i)>> \o <<"\t">>
                      \o PyGet(unique[i].collectionName, Unknown).s \o <<"\t">>
                      \o PyGet(unique[i].feedUrl, JStr(<<>>)).s]

\* IFS=$'\t' read -r num name feed: the fields between the runs of tabs
RECURSIVE FirstTab(_, _)
FirstTab(s, i) ==
    IF i <= Len(s) /\ s[i] # "\t" THEN FirstTab(s, i + 1) ELSE i
RECURSIVE TabFields(_)
TabFields(s) ==
    IF s = <<>> THEN <<>>
    ELSE IF Head(s) = "\t" THEN TabFields(Tail(s))
    ELSE LET n == FirstTab(s, 1)
         IN  <<SubSeq(s, 1, n - 1)>> \o TabFields(SubSeq(s, n + 1, Len(s)))
Field(fs, k) == IF k <= Len(fs) THEN fs[k] ELSE <<>>

\* the while loop over the lines of the search result, from line i on:
\* the first line that has a number and a feed
RECURSIVE FirstFeed(_, _)
FirstFeed(lines, i) ==
    IF i > Len(lines) THEN [feed |-> <<>>, name |-> <<>>]
    ELSE LET fs == TabFields(lines[i])
         IN  IF /\ Field(fs, 1) # <<>>
                /\ Field(fs, 1) # Multiple
                /\ Field(fs, 3) # <<>>
             THEN [feed |-> Field(fs, 3), name |-> Field(fs, 2)]
             ELSE FirstFeed(lines, i + 1)

StartsWith(s, pre) ==
    /\ Len(pre) <= Len(s)
    /\ \A k \in 1..Len(pre) : s[k] = pre[k]

MsgFetching == <<"F", "e", "t", "c", "h", "i", "n", "g", " ", "p", "o", "d", "c", "a",
      "s", "t", " ", "i", "n", "f", "o", " ", "f", "r", "o", "m", " ", "S",
      "p", "o", "t", "i", "f", "y", ".", ".", ".">>
MsgCouldNotFetch == <<"E", "r", "r", "o", "r", ":", " ", "C", "o", "u", "l", "d", " ", "n",
      "o", "t", " ", "f", "e", "t", "c", "h", " ", "p", "o", "d", "c", "a",
      "s", "t", " ", "i", "n", "f", "o", " ", "f", "r", "o", "m", " ", "S",
      "p", "o", "t", "i", "f", "y">>
MsgFound == <<"F", "o", "u", "n", "d", ":", " ">>
MsgSearching == <<"S", "e", "a", "r", "c", "h", "i", "n", "g", " ", "f", "o", "r", " ",
      "R", "S", "S", " ", "f", "e", "e", "d", ".", ".", ".">>
MsgNoMatching == <<"N", "o", " ", "m", "a", "t", "c", "h", "i", "n", "g", " ", "p", "o",
      "d", "c", "a", "s", "t", "s", " ", "f", "o", "u", "n", "d", ".">>
MsgFoundFeed == <<"F", "o", "u", "n", "d", " ", "R", "S", "S", " ", "f", "e", "e", "d",
      ":", " ">>
MsgAutoSelect == <<"M", "u", "l", "t", "i", "p", "l", "e", " ", "p", "o", "d", "c", "a",
      "s", "t", "s", " ", "f", "o", "u", "n", "d", ".", " ", "A", "u", "t",
      "o", "-", "s", "e", "l", "e", "c", "t", "i", "n", "g", " ", "f", "i",
      "r", "s", "t", " ", "m", "a", "t", "c", "h", ":", " ">>
MsgCouldNotParse == <<"C", "o", "u", "l", "d", " ", "n", "o", "t", " ", "p", "a", "r", "s",
      "e", " ", "s", "e", "a", "r", "c", "h", " ", "r", "e", "s", "u", "l",
      "t", "s">>
WordError == <<"E", "r", "r", "o", "r">>
WordNoMatching == <<"N", "o", " ", "m", "a", "t", "c", "h", "i", "n", "g">>

\* the rest of spotify_to_rss once the search result is in: its exit
\* status and the lines it adds to its output
RssFromSearch(lines) ==
    IF lines = <<NoResults>>
    THEN [status |-> 1, out |-> <<MsgNoMatching>>]
    ELSE IF lines # <<>> /\ StartsWith(lines[1], SinglePrefix)
    THEN LET rss == SubSeq(lines[1], Len(SinglePrefix) + 1, Len(lines[1]))
         IN  [status |-> 0, out |-> <<MsgFoundFeed \o rss, rss>>]
    ELSE LET first == FirstFeed(lines, 1)
         IN  IF first.feed # <<>>
             THEN [status |-> 0,
                   out |-> <<MsgAutoSelect \o first.name, first.feed>>]
             ELSE [status |-> 1, out |-> <<MsgCouldNotParse>>]

\* the responses of the search the script is run against
CliFeedResponses ==
    PipelineFeedResponses \cup
    {FeedResponse("ok", TRUE, "object", TRUE,
                  <<ResultRecord(FeedUrl2, JUndefined, JUndefined),
                    ResultRecord(FeedUrl1, Chars2("n", "1"), JUndefined)>>)}

\* a tool run: the feed url and the --episode-regex it is started with
ToolCall(url, regex) == [url |-> url, regex |-> regex]

CliInit ==
    /\ cUrl \in CliUrls
    /\ cPc = "main"
    /\ cFilter = <<>> /\ cTitle = <<>> /\ cStdout = <<>> /\ cRss = <<>>
    /\ cTool = <<>>
    /\ PipeIdle /\ FilterIdle /\ SearchIdle /\ PairIdle /\ MatchIdle

\* main, a Spotify url: the title of an episode url is looked up and made
\* the episode filter; the script ends when the lookup command fails
MainFilter ==
    /\ cPc = "main"
    /\ Includes(cUrl, SpotifyCom)
    /\ IF Includes(cUrl, EpisodeMarker)
       THEN \E reply \in TitleReplies :
                LET title == get_spotify_title(reply)
                IN  IF title.status # 0
                    THEN cPc' = "exit" /\ cFilter' = cFilter
                    ELSE cPc' = "spotify_to_rss"
                         /\ cFilter' = SedEscape(title.out)
       ELSE cPc' = "spotify_to_rss" /\ cFilter' = cFilter
    /\ UNCHANGED <<cUrl, cTitle, cStdout, cRss, cTool, pipeVars, filterVars,
                   searchVars, pairVars, matchVars>>

\* main, any other url: it is the feed
MainFeedUrl ==
    /\ cPc = "main"
    /\ ~Includes(cUrl, SpotifyCom)
    /\ cRss' = cUrl
    /\ cPc' = "download_from_rss"
    /\ UNCHANGED <<cUrl, cFilter, cTitle, cStdout, cTool, pipeVars, filterVars,
                   searchVars, pairVars, matchVars>>

\* spotify_to_rss up to the search: its own lookup of the title
SpotifyTitle ==
    /\ cPc = "spotify_to_rss"
    /\ \E reply \in TitleReplies :
           LET title == get_spotify_title(reply).out
           IN  IF title = <<>>
               THEN /\ cStdout' = <<MsgFetching, MsgCouldNotFetch>>
                    /\ cTitle' = cTitle
                    /\ cPc' = "exit"
               ELSE /\ cStdout' = <<MsgFetching, MsgFound \o title,
                                     MsgSearching>>
                    /\ cTitle' = title
                    /\ cPc' = "search"
    /\ UNCHANGED <<cUrl, cFilter, cRss, cTool, pipeVars, filterVars,
                   searchVars, pairVars, matchVars>>

\* spotify_to_rss from the search on, and what main makes of its output:
\* the script ends when it fails, prints nothing, or prints "Error" or
\* "No matching" anywhere; the feed is the last line
SpotifySearch ==
    /\ cPc = "search"
    /\ \E response \in CliFeedResponses :
           LET rest == RssFromSearch(search_itunes_interactive(response))
               out == cStdout \o rest.out
           IN  /\ cStdout' = out
               /\ IF \/ rest.status # 0
                     \/ \E i \in 1..Len(out) :
                            \/ Includes(out[i], WordError)
                            \/ Includes(out[i], WordNoMatching)
                  THEN cPc' = "exit" /\ cRss' = cRss
                  ELSE cPc' = "download_from_rss" /\ cRss' = out[Len(out)]
    /\ UNCHANGED <<cUrl, cFilter, cTitle, cTool, pipeVars, filterVars,
                   searchVars, pairVars, matchVars>>

\* download_from_rss: the tool is started with --episode-regex when the
\* filter is not empty and without it otherwise; no tool without npx
DownloadTool ==
    /\ cPc = "download_from_rss"
    /\ \E npx \in BOOLEAN :
           IF npx
           THEN /\ cTool' = Append(cTool,
                                   ToolCall(cRss, IF cFilter # <<>>
                                                  THEN JStr(cFilter)
                                                  ELSE NoRegexArg))
                /\ cPc' = "done"
           ELSE cTool' = cTool /\ cPc' = "exit"
    /\ UNCHANGED <<cUrl, cFilter, cTitle, cStdout, cRss, pipeVars, filterVars,
                   searchVars, pairVars, matchVars>>

CliNext ==
    MainFilter \/ MainFeedUrl \/ SpotifyTitle \/ SpotifySearch \/ DownloadTool
SpecCli == CliInit /\ [][CliNext]_vars

(***************************************************************************)
(* What the claims speak of, stated without the code's operators.          *)
(***************************************************************************)
\* the metacharacter set the specification lists: [ ] . * ^ $ ( ) + ? { } | \
SpecMetaChars ==
    {"[", "]", ".", "*", "^", "$", "(", ")", "+", "?", "{", "}", "|", Backslash}
\* the same set without the closing brace
MetaCharsNoCloseBrace == SpecMetaChars \ {"}"}

\* the positions of a pattern that an unescaped backslash before them
\* escapes, reading the pattern from position i on
RECURSIVE EscapedPositions(_, _)
EscapedPositions(p, i) ==
    IF i > Len(p) THEN {}
    ELSE IF p[i] = Backslash /\ i < Len(p)
         THEN {i + 1} \cup EscapedPositions(p, i + 2)
         ELSE EscapedPositions(p, i + 1)

\* the positions of the backslashes that escape the next character
EscapingPositions(p) == {i - 1 : i \in EscapedPositions(p, 1)}

\* the pattern without its escaping backslashes
Unescaped(p) ==
    LET keep == {i \in 1..Len(p) : i \notin EscapingPositions(p)}
        nth(k) == CHOOSE i \in keep : Cardinality({j \in keep : j < i}) = k - 1
    IN  [k \in 1..Cardinality(keep) |-> p[nth(k)]]

\* every occurrence in p of a character of `meta` is escaped, no other
\* character is, and p without the escaping backslashes is title
EscapesExactly(p, title, meta) ==
    /\ \A i \in 1..Len(p) :
           (p[i] \in meta /\ i \notin EscapingPositions(p))
               => i \in EscapedPositions(p, 1)
    /\ \A i \in EscapedPositions(p, 1) : p[i] \in meta
    /\ Unescaped(p) = title

\* the characters the fuzzy filter splits on: white space, hyphen, colon, comma
SplitChars == {" ", "\t", "\n", "-", ":", ","}

\* the fragments of a title: its maximal runs of characters that are not
\* split on, as <<first, last>> positions
Fragments(title) ==
    {r \in (1..Len(title)) \X (1..Len(title)) :
        /\ r[1] <= r[2]
        /\ \A k \in r[1]..r[2] : title[k] \notin SplitChars
        /\ r[1] = 1 \/ title[r[1] - 1] \in SplitChars
        /\ r[2] = Len(title) \/ title[r[2] + 1] \in SplitChars}

Surviving(title) == {r \in Fragments(title) : r[2] - r[1] + 1 > 2}

\* the surviving fragments in the order of their place in the title
SurvivingInOrder(title) ==
    LET S == Surviving(title)
        nth(k) == CHOOSE r \in S : Cardinality({q \in S : q[1] < r[1]}) = k - 1
    IN  [k \in 1..Cardinality(S) |-> SubSeq(title, nth(k)[1], nth(k)[2])]

\* '.*' before, between and after the escaped fragments
RECURSIVE Wrapped(_)
Wrapped(frags) ==
    IF frags = <<>> THEN <<".", "*">>
    ELSE <<".", "*">> \o EscapeRegex(Head(frags)) \o Wrapped(Tail(frags))

FuzzyBuildable(title) == Surviving(title) # {}

(***************************************************************************)
(* The calls of downloadFromRss made so far, and what the replies of the   *)
(* outside say, read off the replies themselves.                           *)
(***************************************************************************)
NonEmptyString(v) == v.t = "string" /\ v.s # <<>>

IsDownload(c) == c.op = "downloadFromRss"
Downloads == SelectSeq(calls, IsDownload)

IsEpisodeUrl == spotifyUrl = UrlEpisode
IsShowUrl == spotifyUrl \in {UrlShow, UrlEpisodeNoSlash}

\* the metadata reply has a non-success status, a malformed payload or an
\* absent or empty title
NoTitleReply(r) ==
    \/ r.net = "throws"
    \/ ~r.ok
    \/ r.body # "object"
    \/ r.title \in {JUndefined, JNull, JStr(<<>>)}

\* the feed-index reply yields no candidate
NoCandidateReply(r) ==
    \/ r.net = "throws"
    \/ ~r.ok
    \/ r.body # "object"
    \/ ~r.hasResults
    \/ \A i \in 1..Len(r.results) : ~NonEmptyString(r.results[i].feedUrl)

AudioNames == {FileMp3, FileM4a, FileWav}

(***************************************************************************)
(* C1: for an episode URL whose first download attempt failed and whose    *)
(* title leaves a fragment longer than 2, the call does not return before  *)
(* a second attempt, returns after exactly one, made with the Fuzzy        *)
(* filter, and returns that attempt's result, failure included.            *)
(***************************************************************************)
C1_FuzzyRetry ==
    LET ds == Downloads
    IN  (IsEpisodeUrl /\ Len(ds) >= 1 /\ ~ds[1].success
            /\ FuzzyBuildable(spotifyInfo.title.s)) =>
            /\ pc \in {"AttemptingFuzzyDownload", "Done"}
            /\ pc = "AttemptingFuzzyDownload" => Len(ds) = 1
            /\ pc = "Done" =>
                /\ Len(ds) = 2
                /\ ds[1].arg = JStr(EscapeRegex(spotifyInfo.title.s))
                /\ ds[2].arg = JStr(Wrapped(SurvivingInOrder(spotifyInfo.title.s)))
                /\ outcome.success = ds[2].success
                /\ ~ds[2].success =>
                       /\ outcome.error = downloadResult.error
                       /\ outcome.error.t = "string"

\* a call that ended after a failed Exact and a failed Fuzzy attempt
C1_Witness ==
    /\ pc = "Done"
    /\ IsEpisodeUrl
    /\ Len(Downloads) = 2
    /\ ~Downloads[1].success
    /\ ~Downloads[2].success
    /\ ~outcome.success

(***************************************************************************)
(* C2: for a show URL (no "/episode/" in it) at most one download attempt  *)
(* is made, the call ends with it, and its result is the call's result.    *)
(***************************************************************************)
C2_ShowSingleAttempt ==
    LET ds == Downloads
    IN  IsShowUrl =>
            /\ Len(ds) <= 1
            /\ pc # "AttemptingFuzzyDownload"
            /\ Len(ds) = 1 =>
                /\ pc = "Done"
                /\ outcome.success = ds[1].success
                /\ outcome.filePath = downloadResult.filePath
                /\ outcome.error = downloadResult.error

\* a show call that ended after its one attempt failed
C2_Witness ==
    /\ pc = "Done"
    /\ IsShowUrl
    /\ Len(Downloads) = 1
    /\ ~Downloads[1].success
    /\ spotifyInfo.title.t = "string"
    /\ FuzzyBuildable(spotifyInfo.title.s)

(***************************************************************************)
(* C3: when the feed-index reply yields no candidate, the call ends with   *)
(* the failure 'Could not find RSS feed in iTunes' and makes no download   *)
(* attempt.                                                                *)
(***************************************************************************)
C3_FeedNotFound ==
    (Len(calls) >= 2 /\ NoCandidateReply(calls[2].reply)) =>
        /\ pc = "Done"
        /\ ~outcome.success
        /\ outcome.error = CouldNotFind
        /\ outcome.filePath = JUndefined
        /\ Len(calls) = 2
        /\ Downloads = <<>>

\* a search that answered with records, none bearing a feedUrl
C3_Witness ==
    /\ pc = "Done"
    /\ Len(calls) = 2
    /\ calls[2].op = "searchItunesRss"
    /\ calls[2].reply.ok
    /\ calls[2].reply.hasResults
    /\ Len(calls[2].reply.results) > 0
    /\ NoCandidateReply(calls[2].reply)

(***************************************************************************)
(* C4: when the metadata reply has a non-success status, a malformed       *)
(* payload or an absent or empty title, the call ends with the failure     *)
(* 'Could not fetch podcast info from Spotify', after the lookup alone: no *)
(* search, no download attempt, and no title in the result.                *)
(***************************************************************************)
C4_MetadataNotFound ==
    (Len(calls) >= 1 /\ NoTitleReply(calls[1].reply)) =>
        /\ pc = "Done"
        /\ outcome = Failure(CouldNotFetch)
        /\ Len(calls) = 1
        /\ calls[1].op = "getSpotifyInfo"
        /\ ~NonEmptyString(spotifyInfo.title)
        /\ episodeFilter = JNull

\* a lookup that answered with a success status and an empty title
C4_Witness ==
    /\ pc = "Done"
    /\ Len(calls) = 1
    /\ calls[1].reply.ok
    /\ calls[1].reply.body = "object"
    /\ calls[1].reply.title = JStr(<<>>)

(***************************************************************************)
(* C5: a returned result is a success only if the download attempt that    *)
(* ended the call ran the tool to exit status zero and found an audio file *)
(* (mp3, m4a, wav) in outputDir, and its filePath then names an audio file *)
(* present in outputDir; every other returned result is a failure without  *)
(* a filePath.                                                             *)
(***************************************************************************)
C5_SuccessOnlyWithFile ==
    pc = "Done" =>
        LET ds == Downloads
        IN  /\ outcome.success =>
                /\ Len(ds) >= 1
                /\ ds[Len(ds)].success
                /\ ds[Len(ds)].reply.exit = "zero"
                /\ \E f \in dir \cap AudioNames :
                       /\ outcome.filePath = JStr(OutputDir \o <<"/">> \o f)
                       /\ outcome.fileName = JStr(f)
            /\ ~outcome.success =>
                /\ outcome.filePath = JUndefined
                /\ outcome.fileName = JUndefined
                /\ outcome.error.t = "string"

\* a success found by the Fuzzy attempt, in a directory that also holds a
\* file that is no audio file
C5_Witness ==
    /\ pc = "Done"
    /\ outcome.success
    /\ Len(Downloads) = 2
    /\ dir \ AudioNames # {}

(***************************************************************************)
(* C6: whatever the metadata reply, the feed-index reply and the download  *)
(* tool do, the call ends by returning a result with a success flag: no    *)
(* failure leaves it as an uncaught exception.                             *)
(***************************************************************************)
C6_NoUncaughtException == pc # "Thrown"

(***************************************************************************)
(* C7: the candidates searchItunesRss returns for a response list hold no  *)
(* feedUrl twice, stand in the order their feedUrls first appear in the    *)
(* response, and each carries the display name of the first record bearing *)
(* its feedUrl; records that all bear one feedUrl yield exactly one        *)
(* candidate, with the first record's name.                                *)
(***************************************************************************)
CandidateList(out) == IF out.t = "candidate" THEN <<out>> ELSE <<>>

\* the place of the first record bearing feedUrl u (0 if none)
FirstBearing(results, u) ==
    IF \E i \in 1..Len(results) : results[i].feedUrl = u
    THEN CHOOSE i \in 1..Len(results) :
            /\ results[i].feedUrl = u
            /\ \A j \in 1..(i - 1) : results[j].feedUrl # u
    ELSE 0

DisplayName(record) ==
    IF NonEmptyString(record.collectionName) THEN record.collectionName
    ELSE IF NonEmptyString(record.trackName) THEN record.trackName
    ELSE Unknown

ListedFeedUrls(results) ==
    {results[i].feedUrl : i \in 1..Len(results)} \cap {FeedUrl1, FeedUrl2}

C7_DedupFirstSeen ==
    (sOp = "searched" /\ sResponse.net = "ok" /\ sResponse.ok
        /\ sResponse.body = "object" /\ sResponse.hasResults) =>
        LET results == sResponse.results
            cands == CandidateList(sOut)
        IN  /\ \A i, j \in 1..Len(cands) :
                   cands[i].feedUrl = cands[j].feedUrl => i = j
            /\ \A i \in 1..Len(cands) :
                   /\ FirstBearing(results, cands[i].feedUrl) > 0
                   /\ cands[i].collectionName =
                        DisplayName(results[FirstBearing(results, cands[i].feedUrl)])
            /\ \A i, j \in 1..Len(cands) :
                   i < j => FirstBearing(results, cands[i].feedUrl)
                              < FirstBearing(results, cands[j].feedUrl)
            /\ Cardinality(ListedFeedUrls(results)) = 1 => Len(cands) = 1

\* a response in which two records bear the same feedUrl under different
\* names, after a record that bears none
C7_Witness ==
    /\ sOp = "searched"
    /\ sOut.t = "candidate"
    /\ Len(sResponse.results) = 3
    /\ ~Truthy(sResponse.results[1].feedUrl)
    /\ sResponse.results[2].feedUrl = sResponse.results[3].feedUrl
    /\ Truthy(sResponse.results[2].feedUrl)
    /\ DisplayName(sResponse.results[2]) # DisplayName(sResponse.results[3])
    /\ sOut.collectionName = DisplayName(sResponse.results[2])

(***************************************************************************)
(* C8 (as stated): the Exact filter escapes every occurrence of every      *)
(* character of [ ] . * ^ $ ( ) + ? { } | \, copies every other character  *)
(* unchanged in order, and gives the title back when the inserted          *)
(* backslashes are removed.                                                *)
(***************************************************************************)
C8_Original ==
    fOp = "exact" => EscapesExactly(fOut.s, fTitle, SpecMetaChars)

(***************************************************************************)
(* C8 (amended): the Exact filter escapes every occurrence of every        *)
(* character of [ ] . * ^ $ ( ) + ? { | \ and no other character: a        *)
(* closing brace is copied unchanged like every other character; removing  *)
(* the inserted backslashes gives the title back.                          *)
(***************************************************************************)
C8_ExactEscapes ==
    fOp = "exact" =>
        /\ fOut.t = "string"
        /\ EscapesExactly(fOut.s, fTitle, MetaCharsNoCloseBrace)

\* an Exact filter built from a title that holds a metacharacter, a closing
\* brace and an ordinary character
C8_Witness ==
    /\ fOp = "exact"
    /\ \E i \in 1..Len(fTitle) : fTitle[i] \in MetaCharsNoCloseBrace
    /\ \E i \in 1..Len(fTitle) : fTitle[i] = "}"
    /\ \E i \in 1..Len(fTitle) : fTitle[i] \notin SpecMetaChars

(***************************************************************************)
(* C9: the Fuzzy filter is '.*' before, between and after the escaped      *)
(* fragments of the title that are longer than 2, in their order in the    *)
(* title, the fragments being what lies between the runs of white space,   *)
(* hyphen, colon and comma; there is no filter when no fragment survives.  *)
(***************************************************************************)
C9_FuzzyFragments ==
    fOp = "fuzzy" =>
        fOut = IF FuzzyBuildable(fTitle)
               THEN JStr(Wrapped(SurvivingInOrder(fTitle)))
               ELSE JNull

\* a Fuzzy filter built from a title with two surviving fragments and a
\* dropped one
C9_Witness ==
    /\ fOp = "fuzzy"
    /\ fOut.t = "string"
    /\ Cardinality(Surviving(fTitle)) >= 2
    /\ Fragments(fTitle) \ Surviving(fTitle) # {}

(***************************************************************************)
(* C10 (as stated): for "The A.I. Revolution: Part One" the Fuzzy filter   *)
(* leaves out "A" and "I" and is built from The, Revolution, Part, One.    *)
(***************************************************************************)
C10_Original ==
    (fTitle = TitleAIRevolution /\ fOp = "fuzzy") =>
        fOut = JStr(<<".", "*", "T", "h", "e", ".", "*", "R", "e", "v", "o",
                      "l", "u", "t", "i", "o", "n", ".", "*", "P", "a", "r",
                      "t", ".", "*", "O", "n", "e", ".", "*">>)

(***************************************************************************)
(* C10 (amended): for "The A.I. Revolution: Part One" the title splits     *)
(* into The, A.I., Revolution, Part, One (the full stop is not split on),  *)
(* no fragment is dropped, and the Fuzzy filter is                         *)
(* .*The.*A\.I\..*Revolution.*Part.*One.*                                  *)
(***************************************************************************)
C10_AIRevolution ==
    (fTitle = TitleAIRevolution /\ fOp = "fuzzy") =>
        fOut = JStr(<<".", "*", "T", "h", "e", ".", "*", "A", Backslash, ".",
                      "I", Backslash, ".", ".", "*", "R", "e", "v", "o", "l",
                      "u", "t", "i", "o", "n", ".", "*", "P", "a", "r", "t",
                      ".", "*", "O", "n", "e", ".", "*">>)

C10_Witness ==
    /\ fTitle = TitleAIRevolution
    /\ fOp = "fuzzy"
    /\ fOut.t = "string"

(***************************************************************************)
(* C11: after the tool exits with status zero, downloadFromRss returns a   *)
(* success exactly when outputDir holds a file ending in .mp3, .m4a or     *)
(* .wav; when it holds none the result is a failure with the error 'No     *)
(* audio files downloaded', an error no failed tool invocation reports.    *)
(***************************************************************************)
C11_NoAudioProduced ==
    LET ds == Downloads
    IN  Len(ds) >= 1 =>
            LET last == ds[Len(ds)]
                exitedZero == last.ran /\ last.reply.exit = "zero"
            IN  /\ exitedZero =>
                    /\ downloadResult.success <=> dir \cap AudioNames # {}
                    /\ dir \cap AudioNames = {} =>
                           downloadResult.error = NoAudioFiles
                /\ ~exitedZero =>
                    /\ ~downloadResult.success
                    /\ downloadResult.error.t = "string"
                    /\ downloadResult.error # NoAudioFiles

\* the tool exited with status zero and outputDir holds only the .txt file
C11_Witness ==
    /\ Len(Downloads) >= 1
    /\ Downloads[Len(Downloads)].reply.exit = "zero"
    /\ dir = {FileTxt}
    /\ ~downloadResult.success
    /\ downloadResult.error = NoAudioFiles

(***************************************************************************)
(* C14: the calls of one execution are, in this order, one metadata        *)
(* lookup, at most one feed search, at most one first download attempt     *)
(* and at most one Fuzzy attempt; a Fuzzy attempt follows only a failed    *)
(* first attempt of an episode, so the tool runs at most twice.            *)
(***************************************************************************)
C14_CallOrder ==
    /\ Len(calls) <= 4
    /\ \A i \in 1..Len(calls) :
           calls[i].op = CASE i = 1 -> "getSpotifyInfo"
                           [] i = 2 -> "searchItunesRss"
                           [] OTHER -> "downloadFromRss"
    /\ Len(calls) >= 2 => calls[1].success
    /\ Len(calls) >= 3 => calls[2].success
    /\ Len(calls) = 4 =>
           /\ IsEpisodeUrl
           /\ ~calls[3].success
           /\ calls[3].arg = episodeFilter
           /\ calls[4].arg = partialFilter
           /\ calls[4].arg # calls[3].arg
    /\ Cardinality({i \in 1..Len(calls) : IsDownload(calls[i]) /\ calls[i].ran}) <= 2

\* a call that made all four calls and ran the tool twice
C14_Witness ==
    /\ Len(calls) = 4
    /\ calls[3].ran
    /\ calls[4].ran
    /\ calls[4].success

(***************************************************************************)
(* C15: when the first attempt of an episode call fails and the title      *)
(* leaves no fragment longer than 2, no second attempt is made and the     *)
(* call returns the first attempt's failure as it is.                      *)
(***************************************************************************)
C15_NoFuzzyFilter ==
    LET ds == Downloads
    IN  (IsEpisodeUrl /\ Len(ds) >= 1 /\ ~ds[1].success
            /\ ~FuzzyBuildable(spotifyInfo.title.s)) =>
            /\ pc = "Done"
            /\ Len(ds) = 1
            /\ partialFilter = JNull
            /\ outcome = Failure(downloadResult.error)
            /\ outcome.error.t = "string"

\* an episode call whose title "a-b" leaves no fragment and whose tool run
\* failed
C15_Witness ==
    /\ IsEpisodeUrl
    /\ pc = "Done"
    /\ spotifyInfo.title = JStr(TitleNoFragment)
    /\ Len(Downloads) = 1
    /\ Downloads[1].ran
    /\ ~Downloads[1].success

(***************************************************************************)
(* C17: the kind a successful lookup returns is Episode exactly when the   *)
(* URL contains "/episode/", whatever the payload, and the entity hint of  *)
(* the feed search is podcastEpisode exactly for that kind.                *)
(***************************************************************************)
C17_KindFromUrl ==
    /\ (Len(calls) >= 1 /\ calls[1].success) =>
           spotifyInfo.type = IF IsEpisodeUrl THEN "episode" ELSE "show"
    /\ Len(calls) >= 2 =>
           calls[2].entity = IF IsEpisodeUrl THEN "podcastEpisode" ELSE "podcast"

\* a search made for the URL that ends in "/episode" without the slash,
\* with the title that an episode URL also meets
C17_Witness ==
    /\ spotifyUrl = UrlEpisodeNoSlash
    /\ Len(calls) >= 2
    /\ calls[2].entity = "podcast"
    /\ spotifyInfo.title = JStr(TitleDotted)

(***************************************************************************)
(* C19: a successful downloadFromRss returns an audio file of outputDir    *)
(* than which no audio file there is more recently modified, and its       *)
(* filePath and fileName name that same file.                              *)
(***************************************************************************)
C19_MostRecentFile ==
    (Len(Downloads) >= 1 /\ downloadResult.success) =>
        \E f \in dir \cap AudioNames :
            /\ downloadResult.fileName = JStr(f)
            /\ downloadResult.filePath = JStr(OutputDir \o <<"/">> \o f)
            /\ \A g \in dir \cap AudioNames : mtime[g] <= mtime[f]

\* a success with an older audio file beside the returned one
C19_Witness ==
    /\ Len(Downloads) >= 1
    /\ downloadResult.success
    /\ \E f, g \in dir \cap AudioNames :
           /\ downloadResult.fileName = JStr(f)
           /\ mtime[g] < mtime[f]

(***************************************************************************)
(* What a feed-index reply is: a transport error (the request fails, the   *)
(* status is a non-success one, the body does not parse) or a successful   *)
(* reply with no candidate in it.                                          *)
(***************************************************************************)
TransportError(r) == r.net = "throws" \/ ~r.ok \/ r.body \in {"unparsable", "null"}
NoMatch(r) == ~TransportError(r) /\ NoCandidateReply(r)

(***************************************************************************)
(* C16 (as stated): the result searchItunesRss returns for a successful    *)
(* reply with no candidate differs from the result it returns for a        *)
(* transport error, so that its caller can tell them apart.                *)
(***************************************************************************)
C16_Original ==
    (sOp = "searched" /\ NoMatch(sResponse)) =>
        \A e \in FailedFeedResponses :
            TransportError(e) => SearchItunesRss(e) # sOut

(***************************************************************************)
(* C16 (amended): searchItunesRss returns null for a successful reply with *)
(* no candidate and null for a transport error alike; the returned value   *)
(* does not tell its caller which of the two happened.                     *)
(***************************************************************************)
C16_NoMatchIsNull ==
    (sOp = "searched" /\ (NoMatch(sResponse) \/ TransportError(sResponse))) =>
        sOut = NoCandidate

\* a search answered by a successful reply with records, none bearing a
\* feedUrl
C16_Witness ==
    /\ sOp = "searched"
    /\ NoMatch(sResponse)
    /\ Len(sResponse.results) >= 2
    /\ sOut.t = "null"

(***************************************************************************)
(* C18: the tool run of the first download attempt is started with the     *)
(* Exact filter as its episode filter when the URL is an episode URL and   *)
(* with no episode filter when it is a show URL; no tool run of a show     *)
(* call is started with an episode filter.                                 *)
(***************************************************************************)
C18_FirstAttemptFilter ==
    /\ (IsEpisodeUrl /\ Len(toolArgs) >= 1 /\ Downloads[1].ran) =>
           /\ toolArgs[1] = episodeFilter
           /\ EscapesExactly(toolArgs[1].s, spotifyInfo.title.s,
                             MetaCharsNoCloseBrace)
    /\ IsShowUrl => \A i \in 1..Len(toolArgs) : toolArgs[i].t # "string"

\* text holds the fragments one after the other from index i on, with any
\* text before, between and after them
RECURSIVE OccursFrom(_, _, _)
OccursFrom(text, frags, i) ==
    IF frags = <<>> THEN TRUE
    ELSE LET f == Head(frags)
         IN  \E j \in i..(Len(text) - Len(f) + 1) :
                 /\ \A k \in 1..Len(f) : text[j + k - 1] = f[k]
                 /\ OccursFrom(text, Tail(frags), j + Len(f))
ContainsInOrder(text, frags) == OccursFrom(text, frags, 1)

(***************************************************************************)
(* C20: the Fuzzy pattern of a title it can be built for matches every     *)
(* string that holds all surviving fragments of the title in order, with   *)
(* any text before, between and after them; it matches the title itself.   *)
(***************************************************************************)
C20_FuzzyMatches ==
    (mOp = "tested" /\ FuzzyBuildable(mTitle)) =>
        /\ ContainsInOrder(mText, SurvivingInOrder(mTitle)) => mResult
        /\ mText = mTitle => mResult

(***************************************************************************)
(* C12: the script never starts the tool on a Spotify episode url without  *)
(* a non-empty --episode-regex.                                            *)
(***************************************************************************)
C12_EpisodeAlwaysFiltered ==
    (Includes(cUrl, SpotifyCom) /\ Includes(cUrl, EpisodeMarker)) =>
        \A i \in 1..Len(cTool) :
            cTool[i].regex.t = "string" /\ cTool[i].regex.s # <<>>

\* the outcomes of one call run on its own in outputDir, which holds the
\* files of start, when it is given the answers meta, feed, run1 and run2
AloneOutcomes(outputDir, url, start, meta, feed, run1, run2) ==
    LET info == GetSpotifyInfo(url, meta)
        found == SearchItunesRss(feed)
        mt0 == [f \in start |-> 0]
        ran1 == run1.mkdir = "ok"
        files1 == IF ran1 THEN DirAfter(run1, start) ELSE start
        mt1 == IF ran1 THEN MtimeAfter(run1, start, mt0, 0) ELSE mt0
        clk1 == IF ran1 THEN 1 ELSE 0
        ran2 == run2.mkdir = "ok"
        files2 == IF ran2 THEN DirAfter(run2, files1) ELSE files1
        mt2 == IF ran2 THEN MtimeAfter(run2, files1, mt1, clk1) ELSE mt1
    IN  IF ~(info.t = "info" /\ NonEmptyString(info.title))
        THEN {Failure(CouldNotFetch)}
        ELSE IF ~(found.t = "candidate" /\ NonEmptyString(found.feedUrl))
        THEN {Failure(CouldNotFind)}
        ELSE UNION
            {IF ~r1.success /\ info.type = "episode"
                /\ FuzzyBuildable(info.title.s)
             THEN {FinishOf(info, found, r2) :
                      r2 \in DownloadFromRssIn(outputDir, run2, files2, mt2)}
             ELSE {FinishOf(info, found, r1)} :
                r1 \in DownloadFromRssIn(outputDir, run1, files1, mt1)}

(***************************************************************************)
(* C13: of two calls that run side by side, each with its own outputDir,   *)
(* each ends with an outcome it can end with when it runs alone and is     *)
(* given the same answers, however their steps interleave.                 *)
(***************************************************************************)
C13_OutcomeAsAlone ==
    \A p \in Procs :
        pState # <<>> /\ pState[p].pc = "Done" =>
            pState[p].outcome \in
                AloneOutcomes(OutputDirOf(p), pState[p].url, pState[p].start,
                              pState[p].meta, pState[p].feed, pState[p].run1,
                              pState[p].run2)

\* both calls have ended; call 2 started its tool first and found no audio
\* file, call 1 then downloaded one into its own directory
C13_Witness ==
    /\ pState # <<>>
    /\ pState[1].pc = "Done" /\ pState[2].pc = "Done"
    /\ pState[1].outcome.success
    /\ pState[1].outcome.fileName = JStr(FileMp3)
    /\ pFs.dirs[OutputDirOf(1)].mtime[FileMp3] = 2
    /\ pState[2].run1.mkdir = "ok"
    /\ ~pState[2].outcome.success
    /\ pState[2].outcome.error = NoAudioFiles

(***************************************************************************)
(* C21: when the call returns success, the file it reports was written by  *)
(* the tool run that concluded the call; a file that was in outputDir      *)
(* before the call, or that a failed first attempt left behind, is never   *)
(* reported when the concluding tool run wrote no audio file.              *)
(***************************************************************************)
C21_FileFromConcludingRun ==
    (pc = "Done" /\ outcome.success) =>
        LET last == Downloads[Len(Downloads)]
        IN  \E f \in last.reply.writes \cap AudioNames :
                outcome.fileName = JStr(f)

====
